---------------------------- MODULE Spec2Model ----------------------------
(***************************************************************************)
(* The conversation session of the Genie chat client                       *)
(* (client/src/components/GenieChat.tsx): the React state of the GenieChat *)
(* component, the sendMessage handler and the completion of its outbound   *)
(* fetch, as a state machine.                                              *)
(*                                                                         *)
(* Encoding of JavaScript values.  A string the user types is a sequence   *)
(* of one-character strings (so that trim() can be computed); every other  *)
(* string is a TLA+ string.  null and undefined are the two reserved       *)
(* strings Null and Undefined, which no domain below uses as text.  An     *)
(* optional object (query_results) is the sequence of at most one element. *)
(* The Date timestamps of messages are not modelled (no handler reads      *)
(* them); Date.now() is the variable now.  React state updates are taken   *)
(* to be visible to the next handler run (handlers are bound to the latest *)
(* render and every render is committed before the next user event).       *)
(***************************************************************************)
EXTENDS Integers, Sequences, FiniteSets, TLC

VARIABLES
    messages,        \* useState<Message[]>, line 26
    input,           \* useState(''), line 34
    isLoading,       \* useState(false), line 35
    conversationId,  \* useState<string | null>(null), line 36
    error,           \* useState<string | null>(null), line 37
    showSqlFor,      \* useState<Set<string>>(new Set()), line 38
    calls,           \* the sendMessage invocations suspended at an await
    requests,        \* the bodies POSTed to /api/genie/send-message so far
    now,             \* Date.now()
    event            \* the handler or continuation that ran last, with the
                     \* invocation it resumed and the body it received; for
                     \* a rendering, the results block it produced

vars == <<messages, input, isLoading, conversationId, error, showSqlFor,
          calls, requests, now, event>>

session == <<messages, conversationId, error, isLoading>>

-----------------------------------------------------------------------------
(* Bounds of the model *)

MaxExchanges == 2     \* accepted submits per session
MaxTicks == 1         \* milliseconds the clock advances
MaxRows == 15         \* rows of a result payload

-----------------------------------------------------------------------------
(* JavaScript values *)

Null == "<null>"
Undefined == "<undefined>"

\* JavaScript truthiness of a string-or-null-or-undefined value
Truthy(v) == v \notin {Null, Undefined, ""}

\* a || b
Or(a, b) == IF Truthy(a) THEN a ELSE b

Whitespace == {" "}

RECURSIVE trimStart(_)
trimStart(s) ==
    IF s # <<>> /\ Head(s) \in Whitespace THEN trimStart(Tail(s)) ELSE s

RECURSIVE trimEnd(_)
trimEnd(s) ==
    IF s # <<>> /\ s[Len(s)] \in Whitespace
    THEN trimEnd(SubSeq(s, 1, Len(s) - 1))
    ELSE s

\* faulty variant: trimStart() in place of trim()
trimStartOnly(s) == trimStart(s)

\* String.prototype.trim, as called at lines 62 and 66
trim(s) == trimEnd(trimStart(s))

\* the JavaScript string made of the characters of s
RECURSIVE Str(_)
Str(s) == IF s = <<>> THEN "" ELSE Head(s) \o Str(Tail(s))

\* faulty variant: prev.slice(0, -2)
SliceButLastTwo(prev) == SubSeq(prev, 1, Len(prev) - 2)

\* prev.slice(0, -1)
SliceButLast(prev) == SubSeq(prev, 1, Len(prev) - 1)

\* The texts typed into the input box: nothing, whitespace only, a text with
\* whitespace before, inside and after it, and a plain text.
Inputs ==
    {<<>>,
     <<" ", " ">>,
     <<" ", "a", " ", "b", " ">>,
     <<"b">>}

-----------------------------------------------------------------------------
(* The relay's answers (section 6 of the specification: an opaque endpoint) *)

GenericError == "Failed to send message"

\* the value of Date.now() when the component mounts
MountTime == 1700

Payload2 ==
    [columns |-> <<"name">>, data |-> <<<<"orders">>, <<"users">>>>, row_count |-> 2]

\* JSON bodies of a 2xx answer: an object, or the JSON value null.  Every
\* field but content is optional.  The relay answers either as in the
\* scenario of section 8 (a generated query with its result table, no
\* message_id) or with a plain text that has a message_id; it names any
\* conversation, or none.  The last body has empty strings for both ids.
SuccessBodies ==
    {[json |-> "object",
      content |-> "Here are your tables",
      conversation_id |-> c,
      message_id |-> Undefined,
      sql_query |-> "SHOW TABLES",
      query_results |-> <<Payload2>>] : c \in {Undefined, "abc123", "xyz789"}}
    \cup
    {[json |-> "object",
      content |-> "I found nothing",
      conversation_id |-> c,
      message_id |-> "m1",
      sql_query |-> Undefined,
      query_results |-> <<>>] : c \in {Undefined, "abc123", "xyz789"}}
    \cup
    {[json |-> "object",
      content |-> "I found nothing",
      conversation_id |-> "",
      message_id |-> "",
      sql_query |-> Undefined,
      query_results |-> <<>>]}

JsonNull == [json |-> "null"]

\* JSON bodies of a non-2xx answer
ErrorBodies == [json : {"object"}, detail : {Undefined, "", "token expired"}]

\* messages of the errors the runtime throws
FetchErrors == {"Failed to fetch", ""}
ParseError == "Unexpected token in JSON"
NullDeref == "Cannot read properties of null"

-----------------------------------------------------------------------------
(* Initial state: lines 26-38 *)

WelcomeMessage ==
    [id |-> "1",
     content |-> "Hello! I'm your Databricks Genie assistant. I can help you analyze data, write SQL queries, and provide insights. How can I help you today?",
     sender |-> "assistant",
     status |-> Undefined,
     sql |-> Undefined,
     results |-> <<>>]

Init ==
    /\ messages = <<WelcomeMessage>>
    /\ input = <<>>
    /\ isLoading = FALSE
    /\ conversationId = Null
    /\ error = Null
    /\ showSqlFor = {}
    /\ calls = <<>>
    /\ requests = <<>>
    /\ now = MountTime
    /\ event = [type |-> "mount"]

-----------------------------------------------------------------------------
(* The environment: the clock and the input box *)

Tick ==
    /\ now < MountTime + MaxTicks
    /\ now' = now + 1
    /\ event' = [type |-> "tick"]
    /\ UNCHANGED <<messages, input, isLoading, conversationId, error,
                   showSqlFor, calls, requests>>

\* onChange={(e) => setInput(e.target.value)}, line 329.  The handler itself
\* has no guard; the disabled attribute of line 333 only keeps a person from
\* typing, so the model lets the handler run in every state.
handleChange(value) ==
    /\ input' = value
    /\ event' = [type |-> "onChange"]
    /\ UNCHANGED <<messages, isLoading, conversationId, error, showSqlFor,
                   calls, requests, now>>

-----------------------------------------------------------------------------
(* sendMessage up to its first await: lines 61-87 *)

\* faulty variant: the guard without its isLoading test
RejectedIgnoringLoading(inp, loading) == trim(inp) = <<>>

\* faulty variant: the guard without trim()
RejectedUntrimmed(inp, loading) == inp = <<>> \/ loading

\* if (!input.trim() || isLoading) return, line 62
Rejected(inp, loading) == trim(inp) = <<>> \/ loading

\* lines 64-70
UserMessage(inp, t) ==
    [id |-> ToString(t),
     content |-> Str(trim(inp)),
     sender |-> "user",
     status |-> "sending",
     sql |-> Undefined,
     results |-> <<>>]

\* faulty variant: the request never carries the conversation
RequestBodyWithoutConversation(userMessage, convId) ==
    [content |-> userMessage.content, conversation_id |-> Null]

\* the body of the POST, lines 83-86
RequestBody(userMessage, convId) ==
    [content |-> userMessage.content, conversation_id |-> convId]

\* A suspended invocation keeps what its closure captured (userMessage and
\* the conversationId of the render it ran in) and where it waits: at the
\* await of fetch (line 78) or at the await of response.json() (lines 90, 94)
\* of a response whose ok flag is ok.  before is a history field: the
\* message sequence as it was when the handler was invoked.
Call(userMessage, convId, before) ==
    [userMessage |-> userMessage,
     conversationId |-> convId,
     pc |-> "fetch",
     ok |-> FALSE,
     before |-> before]

sendMessage ==
    /\ Rejected(input, isLoading) \/ Len(requests) < MaxExchanges
    /\ event' = [type |-> "sendMessage"]
    /\ IF Rejected(input, isLoading)
       THEN UNCHANGED <<messages, input, isLoading, conversationId, error,
                        showSqlFor, calls, requests, now>>
       ELSE LET userMessage == UserMessage(input, now)
            IN  /\ messages' = Append(messages, userMessage)
                /\ input' = <<>>
                /\ isLoading' = TRUE
                /\ error' = Null
                /\ requests' = Append(requests, RequestBody(userMessage, conversationId))
                /\ calls' = Append(calls, Call(userMessage, conversationId, messages))
                /\ UNCHANGED <<conversationId, showSqlFor, now>>

-----------------------------------------------------------------------------
(* The completion of the outbound call: lines 78-124 *)

RemoveAt(s, i) == SubSeq(s, 1, i - 1) \o SubSeq(s, i + 1, Len(s))

\* throw new Error(errorData.detail || 'Failed to send message'), line 91
ErrorThrown(errorData) == Or(errorData.detail, GenericError)

\* setError(err.message || 'Failed to send message'), line 117
CaughtError(message) == Or(message, GenericError)

\* faulty variant: the failed message is appended, the pending one is kept
FailPatchKeepsPending(prev, userMessage) ==
    prev \o <<[userMessage EXCEPT !.status = "error"]>>

\* faulty variant: a failure marks every user message of the session
FailPatchMarksAll(prev, userMessage) ==
    [k \in DOMAIN prev |->
        IF prev[k].sender = "user" THEN [prev[k] EXCEPT !.status = "error"]
        ELSE prev[k]]

\* faulty variant: a failure takes the pending message back out
FailPatchDropsMessage(prev, userMessage) == SliceButLast(prev)

\* lines 118-121
FailPatch(prev, userMessage) ==
    SliceButLast(prev) \o <<[userMessage EXCEPT !.status = "error"]>>

\* faulty variant: every answer that names a conversation replaces the identifier
AlwaysAdoptedConversationId(current, captured, data) ==
    IF Truthy(data.conversation_id) THEN data.conversation_id ELSE current

\* lines 97-99: the test reads the conversationId the closure captured
AdoptedConversationId(current, captured, data) ==
    IF ~Truthy(captured) /\ Truthy(data.conversation_id)
    THEN data.conversation_id
    ELSE current

\* lines 102-109
AssistantMessage(data, t) ==
    [id |-> Or(data.message_id, ToString(t)),
     content |-> data.content,
     sender |-> "assistant",
     status |-> Undefined,
     sql |-> data.sql_query,
     results |-> data.query_results]

\* faulty variant: the settled message is appended, the pending one is kept
SettlePatchKeepsPending(prev, userMessage, assistantMessage) ==
    prev \o <<[userMessage EXCEPT !.status = "sent"]>> \o <<assistantMessage>>

\* faulty variant: the settled message keeps the status it was sent with
SettlePatchStillSending(prev, userMessage, assistantMessage) ==
    SliceButLast(prev) \o <<userMessage>> \o <<assistantMessage>>

\* faulty variant: the reply is put before the message it answers
SettlePatchReplyFirst(prev, userMessage, assistantMessage) ==
    SliceButLast(prev) \o <<assistantMessage>>
                       \o <<[userMessage EXCEPT !.status = "sent"]>>

\* lines 111-115
SettlePatch(prev, userMessage, assistantMessage) ==
    SliceButLast(prev) \o <<[userMessage EXCEPT !.status = "sent"]>>
                       \o <<assistantMessage>>

\* catch and finally, lines 116-124, of invocation i
Catch(i, message) ==
    /\ error' = CaughtError(message)
    /\ messages' = FailPatch(messages, calls[i].userMessage)
    /\ isLoading' = FALSE
    /\ calls' = RemoveAt(calls, i)
    /\ UNCHANGED <<input, conversationId, showSqlFor, requests, now>>

\* fetch resolves with a response: the invocation goes on to response.json()
fetchResolve(i, ok) ==
    /\ calls[i].pc = "fetch"
    /\ calls' = [calls EXCEPT ![i].pc = "json", ![i].ok = ok]
    /\ event' = [type |-> "fetchResolve"]
    /\ UNCHANGED <<messages, input, isLoading, conversationId, error,
                   showSqlFor, requests, now>>

\* fetch rejects (transport error)
fetchReject(i, message) ==
    /\ calls[i].pc = "fetch"
    /\ event' = [type |-> "fetchReject", call |-> calls[i]]
    /\ Catch(i, message)

\* response.json() rejects: the body is not JSON
jsonReject(i) ==
    /\ calls[i].pc = "json"
    /\ event' = [type |-> "jsonReject", call |-> calls[i]]
    /\ Catch(i, ParseError)

\* response.json() resolves with body
jsonResolve(i, body) ==
    /\ calls[i].pc = "json"
    /\ body \in (IF calls[i].ok THEN SuccessBodies ELSE ErrorBodies) \cup {JsonNull}
    /\ event' = [type |-> "jsonResolve", call |-> calls[i], body |-> body]
    /\ IF body.json = "null"
       THEN Catch(i, NullDeref)
       ELSE IF ~calls[i].ok
       THEN Catch(i, ErrorThrown(body))
       ELSE /\ conversationId' =
                   AdoptedConversationId(conversationId, calls[i].conversationId, body)
            /\ messages' = SettlePatch(messages, calls[i].userMessage,
                                       AssistantMessage(body, now))
            /\ isLoading' = FALSE
            /\ calls' = RemoveAt(calls, i)
            /\ UNCHANGED <<input, error, showSqlFor, requests, now>>

-----------------------------------------------------------------------------
(* toggleSqlVisibility: lines 49-59; its button exists for the messages *)
(* that carry a query, lines 196-199                                     *)

\* faulty variant: the identifier is added and never deleted
toggleSqlVisibilityAddOnly(messageId) ==
    /\ showSqlFor' = showSqlFor \cup {messageId}
    /\ event' = [type |-> "toggleSqlVisibility", messageId |-> messageId,
                 before |-> showSqlFor]
    /\ UNCHANGED <<messages, input, isLoading, conversationId, error,
                   calls, requests, now>>

\* the event keeps the identifier and, as history, the set before the toggle
toggleSqlVisibility(messageId) ==
    /\ showSqlFor' = IF messageId \in showSqlFor
                     THEN showSqlFor \ {messageId}
                     ELSE showSqlFor \cup {messageId}
    /\ event' = [type |-> "toggleSqlVisibility", messageId |-> messageId,
                 before |-> showSqlFor]
    /\ UNCHANGED <<messages, input, isLoading, conversationId, error,
                   calls, requests, now>>

ToggleButtons == {messages[k].id : k \in {j \in DOMAIN messages : Truthy(messages[j].sql)}}

-----------------------------------------------------------------------------
(* The results block of a message: lines 222-274                           *)

\* the number of rows the table shows, lines 247, 262 and 264
RowLimit == 10

HasField(object, field) == field \in DOMAIN object

\* faulty variant: the end index is included
sliceInclusive(s, start, end) ==
    SubSeq(s, start + 1, IF end + 1 < Len(s) THEN end + 1 ELSE Len(s))

\* Array.prototype.slice(start, end) for indices that are not negative
slice(s, start, end) ==
    SubSeq(s, start + 1, IF end < Len(s) THEN end ELSE Len(s))

\* a cell, lines 250-256: String(value), or an italic null
RenderCell(value) ==
    IF value \in {Null, Undefined}
    THEN [text |-> "null", italic |-> TRUE]
    ELSE [text |-> value, italic |-> FALSE]

RenderRow(row) == [c \in DOMAIN row |-> RenderCell(row[c])]

\* the body of the table, lines 247-259
RenderedRows(results) ==
    LET shown == slice(results.data, 0, RowLimit)
    IN  [k \in DOMAIN shown |-> RenderRow(shown[k])]

\* "Showing first 10 rows of {row_count} total", lines 262-266; a row_count
\* that is undefined leaves its place in the text empty
MoreRowsNote(results) ==
    IF Len(results.data) > RowLimit
    THEN <<[first |-> RowLimit,
            total |-> IF HasField(results, "row_count") THEN results.row_count
                      ELSE Undefined]>>
    ELSE <<>>

\* The block: the count in its header (lines 227-231), then the table when
\* the payload has columns and data (line 234; an array is truthy), else
\* the payload as JSON text (lines 268-272), whose text is not modelled.
ResultsBlock(results) ==
    [rowCount |-> IF HasField(results, "row_count") THEN <<results.row_count>> ELSE <<>>,
     table |-> IF HasField(results, "columns") /\ HasField(results, "data")
               THEN <<[columns |-> results.columns,
                       rows |-> RenderedRows(results),
                       note |-> MoreRowsNote(results)]>>
               ELSE <<>>]

\* the render of message k, which has results (line 222)
renderResults(k) ==
    /\ messages[k].results # <<>>
    /\ event' = [type |-> "render", message |-> k,
                 block |-> ResultsBlock(messages[k].results[1])]
    /\ UNCHANGED <<messages, input, isLoading, conversationId, error,
                   showSqlFor, calls, requests, now>>

\* Result payloads (results?: any, line 22) of up to MaxRows rows, all
\* distinct, of two cells, the second null in every other row.  row_count
\* is the number of rows, or a larger total of which data is a part, or
\* absent; columns may be absent.
ResultRow(k) == <<ToString(k), IF k % 2 = 0 THEN Null ELSE "orders">>

ResultPayloads ==
    LET Data(n) == [k \in 1..n |-> ResultRow(k)]
    IN  {[columns |-> <<"id", "name">>, data |-> Data(n), row_count |-> n + more] :
            n \in 0..MaxRows, more \in {0, 5}}
        \cup {[columns |-> <<"id", "name">>, data |-> Data(n)] : n \in 0..MaxRows}
        \cup {[data |-> Data(n), row_count |-> n] : n \in 0..MaxRows}

\* the 2xx body of the scenario of section 8 with the payload results
ResultBody(results) ==
    [json |-> "object",
     content |-> "Here are your tables",
     conversation_id |-> "abc123",
     message_id |-> Undefined,
     sql_query |-> "SHOW TABLES",
     query_results |-> <<results>>]

-----------------------------------------------------------------------------
(* The session's transitions.  toggleSqlVisibility reads and writes        *)
(* showSqlFor alone, which no other handler touches; it is not a disjunct  *)
(* of Next, so showSqlFor stays empty in the behaviours of Spec; it is a   *)
(* disjunct of NextToggle.                                                 *)

Next ==
    \/ Tick
    \/ \E value \in Inputs : handleChange(value)
    \/ sendMessage
    \/ \E i \in DOMAIN calls, ok \in BOOLEAN : fetchResolve(i, ok)
    \/ \E i \in DOMAIN calls, message \in FetchErrors : fetchReject(i, message)
    \/ \E i \in DOMAIN calls : jsonReject(i)
    \/ \E i \in DOMAIN calls, body \in SuccessBodies \cup ErrorBodies \cup {JsonNull} :
          jsonResolve(i, body)

Spec == Init /\ [][Next]_vars

\* The session with its toggle buttons.  A button exists only on a reply
\* that carries a query, and only a successful exchange appends a reply, so
\* the exchanges of this specification all succeed.
NextToggle ==
    \/ Tick
    \/ \E value \in Inputs : handleChange(value)
    \/ sendMessage
    \/ \E i \in DOMAIN calls : fetchResolve(i, TRUE)
    \/ \E i \in DOMAIN calls, body \in SuccessBodies : jsonResolve(i, body)
    \/ \E messageId \in ToggleButtons : toggleSqlVisibility(messageId)

SpecToggle == Init /\ [][NextToggle]_vars

\* The session after one exchange has succeeded at mount time with a body
\* that carries a result payload: the state sendMessage, fetchResolve and
\* jsonResolve leave.  From there the results block is rendered.
InitRender ==
    \E results \in ResultPayloads :
        LET userMessage == UserMessage(<<"b">>, MountTime)
            body == ResultBody(results)
            call == Call(userMessage, Null, <<WelcomeMessage>>)
        IN  /\ messages = SettlePatch(<<WelcomeMessage, userMessage>>, userMessage,
                                      AssistantMessage(body, MountTime))
            /\ input = <<>>
            /\ isLoading = FALSE
            /\ conversationId = AdoptedConversationId(Null, Null, body)
            /\ error = Null
            /\ showSqlFor = {}
            /\ calls = <<>>
            /\ requests = <<RequestBody(userMessage, Null)>>
            /\ now = MountTime
            /\ event = [type |-> "jsonResolve",
                        call |-> [call EXCEPT !.pc = "json", !.ok = TRUE],
                        body |-> body]

NextRender == \E k \in DOMAIN messages : renderResults(k)

SpecRender == InitRender /\ [][NextRender]_vars

-----------------------------------------------------------------------------
(* Vocabulary of the properties *)

\* s is empty or whitespace only
Blank(s) == \A k \in DOMAIN s : s[k] \in Whitespace

\* c is s without the whitespace at its two ends
IsTrimOf(c, s) ==
    \E l, r \in 0..Len(s) :
        /\ l + r <= Len(s)
        /\ c = SubSeq(s, l + 1, Len(s) - r)
        /\ \A k \in 1..l : s[k] \in Whitespace
        /\ \A k \in (Len(s) - r + 1)..Len(s) : s[k] \in Whitespace
        /\ c # <<>> => c[1] \notin Whitespace /\ c[Len(c)] \notin Whitespace

\* an exchange is pending: its call has neither resolved nor rejected
Pending == calls # <<>>

\* this step is an accepted submit
AcceptedSubmit == event'.type = "sendMessage" /\ ~Blank(input) /\ ~Pending

\* e is the completion of an invocation's exchange
Completed(e) == e.type \in {"fetchReject", "jsonReject", "jsonResolve"}

\* e is a 2xx answer whose body is an object: the exchange succeeded
Succeeded(e) == e.type = "jsonResolve" /\ e.call.ok /\ e.body.json = "object"

Failed(e) == Completed(e) /\ ~Succeeded(e)

Last(s) == s[Len(s)]

\* the position of an invocation's user message
Position(call) == Len(call.before) + 1

-----------------------------------------------------------------------------
(* C1: every accepted submit appends exactly one user message, with status *)
(* 'sending' and the trimmed input as content; when its call resolves or   *)
(* rejects that message is 'sent' or 'error', and a message is 'sending'   *)
(* only while its call is in flight.                                       *)

C1_SubmitAppends ==
    AcceptedSubmit =>
        /\ messages' = Append(messages, Last(messages'))
        /\ Last(messages').sender = "user"
        /\ Last(messages').status = "sending"
        /\ \E c \in {SubSeq(input, a, b) : a, b \in 1..Len(input)} :
              IsTrimOf(c, input) /\ Last(messages').content = Str(c)

C1_CompletionSettles ==
    Completed(event') =>
        LET m == event'.call.userMessage
            p == Position(event'.call)
        IN  /\ p <= Len(messages')
            /\ messages'[p].id = m.id
            /\ messages'[p].content = m.content
            /\ messages'[p].status \in {"sent", "error"}

C1_SendingHasCall ==
    \A k \in DOMAIN messages :
        messages[k].status = "sending" =>
            \E i \in DOMAIN calls :
                Position(calls[i]) = k /\ calls[i].userMessage = messages[k]

C1_SubmitReachesTerminal ==
    [][C1_SubmitAppends /\ C1_CompletionSettles]_vars /\ []C1_SendingHasCall

C1_Witness ==
    /\ Completed(event)
    /\ Len(messages) >= 2
    /\ messages[2].content = "a b"
    /\ messages[2].status \in {"sent", "error"}
    /\ calls = <<>>

-----------------------------------------------------------------------------
(* C2: a submit invoked while an earlier exchange has neither resolved nor *)
(* rejected appends no message, issues no call and changes no session      *)
(* state; at most one outbound call is in flight at any time.              *)

C2_PendingSubmitIsNoOp ==
    event'.type = "sendMessage" /\ Pending =>
        UNCHANGED <<messages, input, isLoading, conversationId, error,
                    showSqlFor, calls, requests>>

C2_SingleFlight ==
    [][C2_PendingSubmitIsNoOp]_vars /\ [](Len(calls) <= 1)

\* a submit of a non-blank text was invoked, and rejected, during an exchange
C2_Witness ==
    event.type = "sendMessage" /\ Pending /\ ~Blank(input)

-----------------------------------------------------------------------------
(* C3: when an exchange succeeds the message sequence becomes the sequence *)
(* as it was before the submit, then the submitted user message with       *)
(* status 'sent', then one assistant message with the content, query text  *)
(* and result payload of the response (absent where the response has none).*)

C3_SuccessStep ==
    Succeeded(event') =>
        LET call == event'.call
            data == event'.body
            reply == Last(messages')
        IN  /\ messages[Position(call)].status = "sending"
            /\ messages' = call.before
                             \o <<[messages[Position(call)] EXCEPT !.status = "sent"]>>
                             \o <<reply>>
            /\ reply.sender = "assistant"
            /\ reply.content = data.content
            /\ reply.sql = data.sql_query
            /\ reply.results = data.query_results

C3_SuccessReconciles == [][C3_SuccessStep]_vars

\* the first scenario of section 8
C3_Witness ==
    /\ Succeeded(event)
    /\ Len(messages) = 3
    /\ conversationId = "abc123"
    /\ messages[2].status = "sent"
    /\ messages[3].sql = "SHOW TABLES"
    /\ Len(messages[3].results[1].data) = 2

-----------------------------------------------------------------------------
(* C4: when an exchange fails the pending user message becomes 'error', no *)
(* assistant message is appended (the length is that of the pending        *)
(* sequence) and the conversation identifier is what it was before the     *)
(* submit, an identifier adopted earlier included.                         *)

C4_FailureStep ==
    Failed(event') =>
        LET call == event'.call
        IN  /\ messages[Position(call)].status = "sending"
            /\ messages' = call.before
                             \o <<[messages[Position(call)] EXCEPT !.status = "error"]>>
            /\ Len(messages') = Len(messages)
            /\ conversationId' = conversationId
            /\ conversationId' = requests[Len(requests)].conversation_id

C4_FailureKeepsSession == [][C4_FailureStep]_vars

\* a failure after an identifier was adopted
C4_Witness ==
    /\ Failed(event)
    /\ conversationId = "abc123"
    /\ Last(messages).status = "error"
    /\ Len(messages) = 4

-----------------------------------------------------------------------------
(* C5 (as stated): after the first successful exchange the identifier is   *)
(* the one that exchange returned and no later exchange changes it.        *)

HasSucceeded == \E k \in 2..Len(messages) : messages[k].sender = "assistant"

C5_SetOnFirstSuccess ==
    [][/\ Succeeded(event') /\ ~HasSucceeded /\ Truthy(event'.body.conversation_id)
            => conversationId' = event'.body.conversation_id
       /\ HasSucceeded => conversationId' = conversationId]_vars

(* C5 (amended): the identifier is adopted from the first successful       *)
(* exchange whose response carries a non-empty conversation_id, a success  *)
(* without one leaving it null; once adopted no later exchange, failed or  *)
(* successful with another identifier, changes it.                         *)

C5_AdoptionStep ==
    /\ conversationId # Null => conversationId' = conversationId
    /\ conversationId = Null /\ Succeeded(event')
          => conversationId' = IF Truthy(event'.body.conversation_id)
                               THEN event'.body.conversation_id
                               ELSE Null
    /\ ~Succeeded(event') => conversationId' = conversationId

C5_AdoptedOnceNeverChanged == [][C5_AdoptionStep]_vars

\* a success that returns another identifier than the adopted one
C5_Witness ==
    /\ Succeeded(event)
    /\ conversationId = "abc123"
    /\ event.body.conversation_id = "xyz789"

-----------------------------------------------------------------------------
(* C6: every outbound request carries the session's conversation           *)
(* identifier as it stands when the submit is accepted: null before any    *)
(* adoption, and the adopted identifier on every request after it.         *)

C6_RequestStep ==
    AcceptedSubmit =>
        requests' = Append(requests, [content |-> Last(messages').content,
                                      conversation_id |-> conversationId])

C6_Reuse ==
    \A j, k \in DOMAIN requests :
        /\ requests[k].conversation_id \in {Null, conversationId}
        /\ j < k /\ requests[j].conversation_id # Null
              => requests[k].conversation_id = requests[j].conversation_id

C6_RequestCarriesIdentifier == [][C6_RequestStep]_vars /\ []C6_Reuse

\* a first request without identifier, a second one with the adopted one
C6_Witness ==
    /\ Len(requests) = 2
    /\ requests[1].conversation_id = Null
    /\ requests[2].conversation_id = "abc123"
    /\ event.type = "sendMessage"

-----------------------------------------------------------------------------
(* C7: a user message changes status once, from 'sending' to 'sent' or to  *)
(* 'error', at the completion of its own call; a message that is 'sent' or *)
(* 'error' keeps its status, identifier and content under every later      *)
(* submit and completion, and no message returns to 'sending'.             *)

StatusChanged(k) == messages'[k].status # messages[k].status

C7_StatusStep ==
    /\ \A k \in DOMAIN messages :
          /\ k \in DOMAIN messages'
          /\ messages[k].status \in {"sent", "error"} => messages'[k] = messages[k]
          /\ messages[k].status = "sending" =>
                /\ messages'[k].id = messages[k].id
                /\ messages'[k].content = messages[k].content
                /\ messages'[k].sender = "user"
                /\ messages'[k].status \in {"sending", "sent", "error"}
          /\ messages'[k].status = "sending" => messages[k].status = "sending"
    /\ IF Completed(event')
       THEN {k \in DOMAIN messages : StatusChanged(k)} = {Position(event'.call)}
       ELSE {k \in DOMAIN messages : StatusChanged(k)} = {}

C7_TerminalStatusIsFinal == [][C7_StatusStep]_vars

\* a failed message, then a later exchange that succeeded
C7_Witness ==
    /\ Len(messages) = 4
    /\ messages[2].status = "error"
    /\ messages[3].status = "sent"
    /\ messages[2].content # messages[3].content

-----------------------------------------------------------------------------
(* C8: submitting input that is empty or whitespace only leaves the        *)
(* message sequence, the conversation identifier, the error and the        *)
(* loading flag as they were and issues no outbound call.                  *)

C8_BlankSubmitStep ==
    event'.type = "sendMessage" /\ Blank(input) =>
        UNCHANGED <<messages, conversationId, error, isLoading, input,
                    showSqlFor, calls, requests>>

C8_BlankSubmitIsNoOp == [][C8_BlankSubmitStep]_vars

\* whitespace was submitted, with no exchange pending, after a failure
C8_Witness ==
    /\ event.type = "sendMessage"
    /\ input = <<" ", " ">>
    /\ ~Pending
    /\ ~isLoading
    /\ error # Null

-----------------------------------------------------------------------------
(* C9: when the relay answers with a non-2xx status the session error is   *)
(* the detail string of the response body when the body carries one, and   *)
(* 'Failed to send message' whenever the response carries none.            *)

HasDetail(e) ==
    e.type = "jsonResolve" /\ e.body.json = "object" /\ Truthy(e.body.detail)

C9_ErrorIsDetailOrGeneric ==
    [][event'.type \in {"jsonReject", "jsonResolve"} /\ ~event'.call.ok =>
          error' = IF HasDetail(event') THEN event'.body.detail ELSE GenericError]_vars

-----------------------------------------------------------------------------
(* C10: in every reachable state no two messages of the sequence share an  *)
(* identifier: the welcome message, the user messages (clock at submit)    *)
(* and the assistant messages (message_id of the response, else the clock).*)

C10_UniqueIds ==
    \A j, k \in DOMAIN messages : j # k => messages[j].id # messages[k].id

-----------------------------------------------------------------------------
(* C11: no retry is attempted automatically: each accepted submit issues   *)
(* exactly one outbound call and a failed exchange issues none, so the     *)
(* number of calls issued so far is the number of user messages in the     *)
(* sequence.                                                               *)

UserMessages == {k \in DOMAIN messages : messages[k].sender = "user"}

C11_CallStep ==
    /\ AcceptedSubmit => Len(requests') = Len(requests) + 1 /\ Len(calls') = Len(calls) + 1
    /\ ~AcceptedSubmit => requests' = requests /\ Len(calls') <= Len(calls)

C11_OneCallPerUserMessage ==
    [][C11_CallStep]_vars /\ [](Len(requests) = Cardinality(UserMessages))

\* two calls were issued, the first of them for an exchange that failed
C11_Witness ==
    /\ Len(requests) = 2
    /\ Cardinality(UserMessages) = 2
    /\ messages[2].status = "error"
    /\ Failed(event)


-----------------------------------------------------------------------------
(* C12: the rendering of a result payload                                  *)

Rendered(e) == e.type = "render"

\* C12, as stated: whenever a payload whose data has n rows is rendered,
\* the block shows a table of exactly the first min(n, 10) rows in their
\* order, and for n > 10 a note whose total leaves n - 10 rows beyond the
\* 10 shown, the payload's row_count being the true total n.
C12_NoteCountsFurtherRows ==
    Rendered(event) /\ HasField(messages[event.message].results[1], "data") =>
        LET results == messages[event.message].results[1]
            n == Len(results.data)
            shown == IF n < RowLimit THEN n ELSE RowLimit
            block == event.block
        IN  /\ block.table # <<>>
            /\ Len(block.table[1].rows) = shown
            /\ \A j \in 1..shown : block.table[1].rows[j] = RenderRow(results.data[j])
            /\ n > RowLimit =>
                  /\ block.table[1].note # <<>>
                  /\ HasField(results, "row_count")
                  /\ results.row_count = n
                  /\ block.table[1].note[1].total - block.table[1].note[1].first
                        = n - RowLimit

\* C12, amended: rendering a payload leaves the messages, and so the payload
\* and its row_count, as they were.  The header shows row_count when the
\* payload has one.  A payload with columns and data of n rows is shown as
\* a table of exactly the first min(n, 10) rows in their order, with a note
\* exactly when n > 10; the note names 10 as the rows shown and the
\* payload's row_count (nothing, if it has none) as the total, so it leaves
\* n - 10 further rows exactly when row_count is n.  Any other payload is
\* shown without a table.
C12_RenderStep ==
    Rendered(event') =>
        LET results == messages[event'.message].results[1]
            block == event'.block
        IN  /\ UNCHANGED <<messages, input, isLoading, conversationId, error,
                           showSqlFor, calls, requests, now>>
            /\ block.rowCount = IF HasField(results, "row_count")
                                THEN <<results.row_count>> ELSE <<>>
            /\ IF HasField(results, "columns") /\ HasField(results, "data")
               THEN LET n == Len(results.data)
                        shown == IF n < RowLimit THEN n ELSE RowLimit
                        table == block.table[1]
                    IN  /\ block.table # <<>>
                        /\ table.columns = results.columns
                        /\ Len(table.rows) = shown
                        /\ \A j \in 1..shown : table.rows[j] = RenderRow(results.data[j])
                        /\ table.note # <<>> <=> n > RowLimit
                        /\ n > RowLimit =>
                              /\ table.note[1].first = RowLimit
                              /\ IF HasField(results, "row_count")
                                 THEN /\ table.note[1].total = results.row_count
                                      /\ table.note[1].total - table.note[1].first = n - RowLimit
                                            <=> results.row_count = n
                                 ELSE table.note[1].total = Undefined
               ELSE block.table = <<>>

C12_RenderShowsFirstRows == [][C12_RenderStep]_vars

\* the scenario of section 8 has been rendered: 15 rows with row_count 15,
\* of which 10 are shown under a note
C12_Witness ==
    /\ Rendered(event)
    /\ LET results == messages[event.message].results[1]
       IN  /\ HasField(results, "columns") /\ HasField(results, "row_count")
           /\ Len(results.data) = 15
           /\ results.row_count = 15
           /\ Len(event.block.table[1].rows) = RowLimit
           /\ event.block.table[1].note # <<>>

-----------------------------------------------------------------------------
(* C13: when a call's completion is reconciled the last element of the     *)
(* sequence is the pending message of that very exchange (same identifier, *)
(* status 'sending'), so replacing the last element drops or overwrites no *)
(* other message: every message before the pending one is still there,     *)
(* unchanged and in the same order.                                        *)

C13_ReconcileStep ==
    Completed(event') =>
        /\ Position(event'.call) = Len(messages)
        /\ Last(messages).id = event'.call.userMessage.id
        /\ Last(messages).status = "sending"
        /\ Len(messages') >= Len(messages)
        /\ \A k \in 1..(Len(messages) - 1) : messages'[k] = messages[k]

C13_LastIsPending == [][C13_ReconcileStep]_vars

\* the completion of an exchange that followed a settled one
C13_Witness ==
    /\ Completed(event)
    /\ Len(event.call.before) = 3
    /\ SubSeq(messages, 1, 3) = event.call.before
    /\ messages[2].status = "sent"

-----------------------------------------------------------------------------
(* C14: the loading flag is true exactly while an exchange is pending: it  *)
(* is true iff a call is in flight, iff some message (then the last one    *)
(* and only that one) is 'sending'; while the call stalls the flag stays   *)
(* true and every submit is rejected; when the call resolves or rejects    *)
(* the flag is false again, after a success and after a failure alike.     *)

Sending == {k \in DOMAIN messages : messages[k].status = "sending"}

C14_LoadingState ==
    /\ isLoading <=> Pending
    /\ Pending <=> Sending # {}
    /\ Sending \subseteq {Len(messages)}

C14_LoadingStep ==
    /\ isLoading /\ ~Completed(event') => isLoading'
    /\ isLoading /\ event'.type = "sendMessage" =>
          UNCHANGED <<messages, calls, requests, conversationId, error>>
    /\ Completed(event') => ~isLoading'

C14_LoadingIffPending == [][C14_LoadingStep]_vars /\ []C14_LoadingState

\* a second exchange is pending and a submit of a text was turned down
C14_Witness ==
    /\ isLoading
    /\ event.type = "sendMessage"
    /\ ~Blank(input)
    /\ Len(messages) = 4
    /\ Sending = {4}

-----------------------------------------------------------------------------
(* C15: the session error is replaced on each new attempt: an accepted     *)
(* submit sets it to null, so it is null while an exchange is pending and  *)
(* after a success; it is non-null only when the most recently completed   *)
(* exchange failed; a rejected submit (empty input or exchange pending)    *)
(* leaves it as it was.                                                    *)

C15_ErrorState ==
    /\ Pending => error = Null
    /\ error # Null => Last(messages).sender = "user" /\ Last(messages).status = "error"

C15_ErrorStep ==
    /\ AcceptedSubmit => error' = Null
    /\ Succeeded(event') => error' = Null
    /\ event'.type = "sendMessage" /\ (Blank(input) \/ Pending) => error' = error

C15_ErrorReplacedPerAttempt == [][C15_ErrorStep]_vars /\ []C15_ErrorState

\* a blank submit after a failure: the error is still shown
C15_Witness ==
    /\ event.type = "sendMessage"
    /\ Blank(input)
    /\ error = "token expired"

-----------------------------------------------------------------------------
(* C16: the welcome message is first and never altered; the length never   *)
(* decreases; a 'sent' user message is immediately followed by exactly one *)
(* assistant message; an 'error' or 'sending' user message is last or      *)
(* followed by the next user message; the assistant messages are one more  *)
(* than the 'sent' user messages.                                          *)

IsAssistant(k) == k \in DOMAIN messages /\ messages[k].sender = "assistant"

C16_Shape ==
    /\ messages[1] = WelcomeMessage
    /\ \A k \in UserMessages :
          /\ messages[k].status \in {"sending", "sent", "error"}
          /\ messages[k].status = "sent" => IsAssistant(k + 1) /\ ~IsAssistant(k + 2)
          /\ messages[k].status \in {"sending", "error"} => ~IsAssistant(k + 1)
    /\ Cardinality({k \in DOMAIN messages : IsAssistant(k)})
          = 1 + Cardinality({k \in UserMessages : messages[k].status = "sent"})

C16_ShapeStep == Len(messages') >= Len(messages) /\ messages'[1] = messages[1]

C16_SequenceShape == [][C16_ShapeStep]_vars /\ []C16_Shape

\* a settled exchange with its reply, then a pending message
C16_Witness ==
    /\ Len(messages) = 4
    /\ messages[2].status = "sent"
    /\ IsAssistant(3)
    /\ messages[4].status = "sending"

-----------------------------------------------------------------------------
(* C17: the generated-query toggle is an involution per identifier: no     *)
(* query text is shown initially and only a toggle changes what is shown;  *)
(* toggling an identifier flips the visibility of that identifier only and *)
(* leaves every other identifier's visibility, the message sequence and    *)
(* the rest of the session unchanged; toggling the same identifier twice   *)
(* restores the previous visibility set.                                   *)

Toggled(e) == e.type = "toggleSqlVisibility"

C17_ToggleStep ==
    /\ Toggled(event') =>
          LET id == event'.messageId
          IN  /\ id \in ToggleButtons
              /\ id \in showSqlFor' <=> id \notin showSqlFor
              /\ showSqlFor' \ {id} = showSqlFor \ {id}
              /\ UNCHANGED <<messages, input, isLoading, conversationId, error,
                             calls, requests, now>>
    /\ Toggled(event) /\ Toggled(event') /\ event'.messageId = event.messageId
          => showSqlFor' = event.before
    /\ ~Toggled(event') => showSqlFor' = showSqlFor

C17_HiddenAtMount == event.type = "mount" => showSqlFor = {}

C17_ToggleIsInvolution == [][C17_ToggleStep]_vars /\ []C17_HiddenAtMount

\* one query was opened and closed again while another one stays open
C17_Witness ==
    /\ Toggled(event)
    /\ Cardinality(ToggleButtons) = 2
    /\ event.messageId \notin showSqlFor
    /\ showSqlFor # {}
    /\ showSqlFor \subseteq ToggleButtons

=============================================================================
